---- MODULE Spec2Model ----
(***************************************************************************)
(* Model of the FDC3 routing engine (class Fdc3Impl) and of the interop    *)
(* platforms it talks to.  Every engine operation is an async function:    *)
(* one action models the code that runs from the call (or from the         *)
(* settling of the awaited remote call) up to the next await.              *)
(*                                                                         *)
(* JavaScript strings are sequences of one-character strings, so that      *)
(* split(":") / join(":") and the template strings are computed, not       *)
(* assumed.  Other JavaScript values are records tagged with their typeof. *)
(***************************************************************************)
EXTENDS Integers, Sequences, FiniteSets, TLC

\* ------------------------------------------------------------------ bounds
MaxPlatforms == 2
MaxMethods == 2

\* ------------------------------------------------------- JavaScript values
Undefined == [t |-> "undefined"]
Null == [t |-> "null"]
Str(s) == [t |-> "string", v |-> s]
Num(n) == [t |-> "number", v |-> n]
Obj(props) == [t |-> "object", v |-> props]

\* JavaScript truthiness, as used by `!x`, `x && ...` and `x || ...`.
Truthy(x) ==
  CASE x.t \in {"undefined", "null"} -> FALSE
    [] x.t = "string" -> x.v # <<>>
    [] x.t = "number" -> x.v # "0"
    [] OTHER -> TRUE

\* Property read `obj[key]` on an object whose properties are kept in
\* insertion order as <<key, value>> pairs.
Get(obj, key) ==
  IF \E j \in 1..Len(obj.v) : obj.v[j][1] = key
    THEN obj.v[CHOOSE j \in 1..Len(obj.v) : obj.v[j][1] = key][2]
    ELSE Undefined

\* JSON.stringify: the properties are written in insertion order.
StringifyScalar(x) ==
  CASE x.t = "string" -> <<"dq">> \o x.v \o <<"dq">>
    [] x.t = "number" -> <<x.v>>
    [] OTHER -> <<"null">>

RECURSIVE StringifyProps(_)
StringifyProps(props) ==
  IF props = <<>> THEN <<>>
  ELSE LET p == Head(props) IN
       (IF p[2].t = "undefined" THEN <<>>
        ELSE <<"key">> \o p[1] \o <<":">> \o StringifyScalar(p[2]) \o <<",">>)
       \o StringifyProps(Tail(props))

JSONstringify(x) ==
  CASE x.t = "undefined" -> <<"undefined">>
    [] x.t = "object" -> <<"{">> \o StringifyProps(x.v) \o <<"}">>
    [] OTHER -> StringifyScalar(x)

\* ------------------------------------------------------------- validation
NoError == <<>>

validateContext(context) ==
  IF ~Truthy(context) THEN NoError
  ELSE IF context.t # "object" THEN <<"Context must be of type object">>
  ELSE IF ~Truthy(Get(context, <<"t","y","p","e">>)) THEN <<"Context type is mandatory parameter">>
  ELSE IF Get(context, <<"t","y","p","e">>).t # "string" THEN <<"Context type must be of type string">>
  ELSE IF Truthy(Get(context, <<"n","a","m","e">>)) /\ Get(context, <<"n","a","m","e">>).t # "string"
    THEN <<"Context name must be of type string">>
  ELSE NoError

validateIntent(intent) ==
  IF ~Truthy(intent) THEN <<"Intent is mandatory parameter">>
  ELSE IF intent.t # "string" THEN <<"Intent must be of type string">>
  ELSE NoError

validateIntentAndContextParams(intent, context) ==
  IF validateIntent(intent) # NoError THEN validateIntent(intent)
  ELSE validateContext(context)

validateRaiseIntent(intent, context, target) ==
  IF validateIntentAndContextParams(intent, context) # NoError
    THEN validateIntentAndContextParams(intent, context)
  ELSE IF Truthy(target) /\ target.t # "string" THEN <<"Target must be of type string">>
  ELSE NoError

validateOpenParams(app, context) ==
  IF ~Truthy(app) THEN <<"App is mandatory parameter">>
  ELSE IF app.t # "string" THEN <<"App must be of type string">>
  ELSE validateContext(context)

\* ------------------------------------------------------------ environment
\* The i-th platform descriptor's type; Fdc3Bus admits distinct types only.
PlatformTypes == <<<<"p">>, <<"q">>, <<"r">>, <<"s">>>>

\* `Fdc3.${platform.name}.${capability}`
MethodFullName(platformName, capability) == <<"Fdc3", platformName, capability>>

AppA == <<"a">>
AppZ == <<"z">>
IntentX == <<"X">>
IntentY == <<"Y">>
Key_type == <<"t","y","p","e">>
Key_name == <<"n","a","m","e">>
Ctx1 == Obj(<< <<Key_type, Str(<<"c">>)>>, <<Key_name, Str(<<"n">>)>> >>)
\* The same properties as Ctx1, inserted in the other order.
Ctx1Reordered == Obj(<< <<Key_name, Str(<<"n">>)>>, <<Key_type, Str(<<"c">>)>> >>)
\* Differs from Ctx1 in the value of `name`.
Ctx2 == Obj(<< <<Key_type, Str(<<"c">>)>>, <<Key_name, Str(<<"m">>)>> >>)

RECURSIVE SeqsUpTo(_, _)
SeqsUpTo(S, n) ==
  IF n = 0 THEN {<<>>}
  ELSE LET shorter == SeqsUpTo(S, n - 1) IN
       shorter \cup {Append(s, x) : s \in shorter, x \in S}

PlatformTypeSet == {PlatformTypes[j] : j \in 1..Len(PlatformTypes)}

\* Methods a platform may expose to raiseIntent: one of application "a"
\* declaring the intents Y and X, one of application "z" declaring X.
RaiseMethodPool ==
  [pn \in PlatformTypeSet |->
    { [name |-> MethodFullName(pn, "M1"), peer |-> [applicationName |-> AppA],
       intent |-> <<[name |-> IntentY, context |-> Ctx1], [name |-> IntentX, context |-> Ctx1]>>],
      [name |-> MethodFullName(pn, "M2"), peer |-> [applicationName |-> AppZ],
       intent |-> <<[name |-> IntentX, context |-> Ctx1]>>] }]

\* Platform handles assembled by interopPlatformsToPlatforms: position j has
\* the j-th descriptor's type as its name.  `methods` is what the platform's
\* discoverMethods resolves with, `apps` what its ListApplications returns.
RECURSIVE PlatformListsOfLen(_, _, _)
PlatformListsOfLen(methodLists, appLists, n) ==
  IF n = 0 THEN {<<>>}
  ELSE { Append(ps, [name |-> PlatformTypes[n], methods |-> ms, apps |-> al]) :
           ps \in PlatformListsOfLen(methodLists, appLists, n - 1),
           ms \in methodLists[PlatformTypes[n]],
           al \in appLists }

PlatformLists(methodLists, appLists) ==
  UNION { PlatformListsOfLen(methodLists, appLists, n) : n \in 0..MaxPlatforms }

\* An error a remote capability call rejects with (its message may be empty).
RemoteErrors == { [message |-> <<"remote failure">>], [message |-> <<>>] }

\* The payload `{result}` an invocation resolves with identifies the call.
ResultOf(call) == [t |-> "result", v |-> call]

\* ------------------------------------------------------------------ state
VARIABLES
  platforms,            \* this.platforms, with each platform's remote side
  defaultErrorMessage,  \* this.defaultErrorMessage
  pc,                   \* position of the operation in progress
  args,                 \* its arguments
  idx,                  \* index of the platform its loop is at
  acc,                  \* its local accumulator
  calls,                \* remote capability calls issued so far, in order
  replies,              \* how each of them settled: "resolved" or "rejected"
  outcome,              \* how the operation settled
  tasks,                \* the detached per-platform tasks of broadcast
  bus,                  \* the construction Fdc3Bus has in progress
  registry,             \* the module-level callback registry: channel -> callbacks
  engines,              \* per Fdc3Impl instance, what it installed on its platforms
  listeners,            \* the Listener handles returned so far
  event,                \* the last listener call or platform event, and whom it called
  suspended             \* a second call of open, while it is not the one running

listenVars == <<registry, engines, listeners, event>>

vars == <<platforms, defaultErrorMessage, pc, args, idx, acc, calls, replies, outcome,
          tasks, bus, listenVars, suspended>>

\* registry = CallbackRegistryFactory(): no callback on either channel.
EmptyRegistry == [channel \in {"add-intent", "add-context"} |-> <<>>]

NoEvent == [kind |-> "none"]

\* The locals of a call that has not been made.
NoCall ==
  [pc |-> "idle", args |-> <<>>, idx |-> 0, acc |-> <<>>, calls |-> <<>>, replies |-> <<>>,
   outcome |-> [kind |-> "pending"]]

Pending == [kind |-> "pending"]
Resolved(value) == [kind |-> "resolved", value |-> value]
Rejected(message) == [kind |-> "rejected", error |-> [message |-> message]]

DiscoverCall(j) == [platform |-> j, call |-> "discoverMethods"]
InvokeCall(j, method, a) == [platform |-> j, call |-> "invoke", method |-> method, args |-> a]

InitWith(platformLists) ==
  /\ platforms \in platformLists
  /\ defaultErrorMessage = Undefined
  /\ pc = "idle"
  /\ args = <<>>
  /\ idx = 0
  /\ acc = <<>>
  /\ calls = <<>>
  /\ replies = <<>>
  /\ outcome = Pending
  /\ tasks = <<>>
  /\ bus = <<>>
  /\ registry = EmptyRegistry
  /\ engines = <<>>
  /\ listeners = <<>>
  /\ event = NoEvent
  /\ suspended = NoCall

\* The caller observes the settled operation; the engine is idle again.
Return ==
  /\ pc = "done"
  /\ pc' = "idle"
  /\ args' = <<>>
  /\ idx' = 0
  /\ acc' = <<>>
  /\ calls' = <<>>
  /\ replies' = <<>>
  /\ outcome' = Pending
  /\ UNCHANGED <<platforms, defaultErrorMessage>>
  /\ UNCHANGED <<tasks, bus, listenVars, suspended>>

Settle(o) ==
  /\ pc' = "done"
  /\ outcome' = o

\* The remote call awaited last settles.
Reply(r) == replies' = Append(replies, r)

\* ------------------------------------------------------------ raiseIntent
\* Faulty variant: the target is not looked at.
MethodHasIntent_ignoringTarget(method, intent, target) ==
  \E k \in 1..Len(method.intent) : method.intent[k].name = intent.v

\* The filter callback of raiseIntent.
MethodHasIntent(method, intent, target) ==
  \E k \in 1..Len(method.intent) :
    /\ method.intent[k].name = intent.v
    /\ Truthy(target) => method.peer.applicationName = target.v

MethodsWithIntent(methods, intent, target) ==
  LET Test(m) == MethodHasIntent(m, intent, target) IN SelectSeq(methods, Test)

NoMethodMessage(intent) == <<"There is no method with intent", intent.v>>
MultipleMethodsMessage(intent) == <<"There are multiple applications with method with intent", intent.v>>

\* Call: validation, then the first iteration up to `await discoverMethods()`.
raiseIntent(intent, context, target) ==
  /\ pc = "idle"
  /\ args' = [op |-> "raiseIntent", intent |-> intent, context |-> context, target |-> target]
  /\ IF validateRaiseIntent(intent, context, target) # NoError
       THEN /\ Settle(Rejected(validateRaiseIntent(intent, context, target)))
            /\ UNCHANGED <<idx, calls>>
     ELSE IF Len(platforms) = 0
       THEN /\ Settle(Resolved(Undefined))
            /\ UNCHANGED <<idx, calls>>
     ELSE /\ idx' = 1
          /\ calls' = Append(calls, DiscoverCall(1))
          /\ pc' = "raiseIntent_discover"
          /\ UNCHANGED outcome
  /\ UNCHANGED <<platforms, defaultErrorMessage, acc, replies>>
  /\ UNCHANGED <<tasks, bus, listenVars, suspended>>

RECURSIVE MethodsOfAll(_)
MethodsOfAll(ps) ==
  IF ps = <<>> THEN <<>> ELSE Head(ps).methods \o MethodsOfAll(Tail(ps))

\* Faulty variant: the candidates of all platforms are counted together.
raiseIntent_discovered_countingAllPlatforms ==
  /\ pc = "raiseIntent_discover"
  /\ LET methodsWithIntent == MethodsWithIntent(MethodsOfAll(platforms), args.intent, args.target) IN
     /\ acc' = methodsWithIntent
     /\ IF Len(methodsWithIntent) = 0
          THEN Settle(Rejected(NoMethodMessage(args.intent))) /\ UNCHANGED calls
        ELSE IF Len(methodsWithIntent) > 1
          THEN Settle(Rejected(MultipleMethodsMessage(args.intent))) /\ UNCHANGED calls
        ELSE /\ calls' = Append(calls, InvokeCall(idx, methodsWithIntent[1], args.context))
             /\ pc' = "raiseIntent_invoke"
             /\ UNCHANGED outcome
  /\ Reply("resolved")
  /\ UNCHANGED <<platforms, defaultErrorMessage, args, idx>>
  /\ UNCHANGED <<tasks, bus, listenVars, suspended>>

\* discoverMethods resolved: filter, cardinality check, `await invoke(...)`.
raiseIntent_discovered ==
  /\ pc = "raiseIntent_discover"
  /\ LET methodsWithIntent == MethodsWithIntent(platforms[idx].methods, args.intent, args.target) IN
     /\ acc' = methodsWithIntent
     /\ IF Len(methodsWithIntent) = 0
          THEN Settle(Rejected(NoMethodMessage(args.intent))) /\ UNCHANGED calls
        ELSE IF Len(methodsWithIntent) > 1
          THEN Settle(Rejected(MultipleMethodsMessage(args.intent))) /\ UNCHANGED calls
        ELSE /\ calls' = Append(calls, InvokeCall(idx, methodsWithIntent[1], args.context))
             /\ pc' = "raiseIntent_invoke"
             /\ UNCHANGED outcome
  /\ Reply("resolved")
  /\ UNCHANGED <<platforms, defaultErrorMessage, args, idx>>
  /\ UNCHANGED <<tasks, bus, listenVars, suspended>>

\* discoverMethods rejected: the rejection leaves raiseIntent unchanged.
raiseIntent_discoverRejected ==
  /\ pc = "raiseIntent_discover"
  /\ \E e \in RemoteErrors : Settle([kind |-> "rejected", error |-> e])
  /\ Reply("rejected")
  /\ UNCHANGED <<platforms, defaultErrorMessage, args, idx, acc, calls>>
  /\ UNCHANGED <<tasks, bus, listenVars, suspended>>

\* invoke resolved: `return invokeResult.result`.
raiseIntent_invoked ==
  /\ pc = "raiseIntent_invoke"
  /\ Settle(Resolved(ResultOf(calls[Len(calls)])))
  /\ Reply("resolved")
  /\ UNCHANGED <<platforms, defaultErrorMessage, args, idx, acc, calls>>
  /\ UNCHANGED <<tasks, bus, listenVars, suspended>>

raiseIntent_invokeRejected ==
  /\ pc = "raiseIntent_invoke"
  /\ \E e \in RemoteErrors : Settle([kind |-> "rejected", error |-> e])
  /\ Reply("rejected")
  /\ UNCHANGED <<platforms, defaultErrorMessage, args, idx, acc, calls>>
  /\ UNCHANGED <<tasks, bus, listenVars, suspended>>

\* Arguments raiseIntent is called with: every valid combination, and one
\* call per validation failure.
RaiseIntentArgs ==
  ({Str(IntentX), Str(IntentY)} \X {Ctx1} \X {Undefined, Str(AppA), Str(AppZ)})
  \cup { <<Undefined, Ctx1, Undefined>>, <<Num("7"), Ctx1, Undefined>>,
         <<Str(IntentX), Str(<<"c">>), Undefined>>, <<Str(IntentX), Ctx1, Num("7")>> }

raiseIntentCall ==
  \E a \in RaiseIntentArgs : raiseIntent(a[1], a[2], a[3])

InitRaise ==
  InitWith(PlatformLists([pn \in PlatformTypeSet |-> SeqsUpTo(RaiseMethodPool[pn], MaxMethods)], {<<>>}))

NextRaise ==
  \/ raiseIntentCall
  \/ raiseIntent_discovered
  \/ raiseIntent_discoverRejected
  \/ raiseIntent_invoked
  \/ raiseIntent_invokeRejected
  \/ Return

SpecRaise == InitRaise /\ [][NextRaise]_vars

\* ------------------------------------------------------------------- open
\* app.split(":")
RECURSIVE Split(_)
Split(s) ==
  IF \E j \in 1..Len(s) : s[j] = ":"
    THEN LET c == CHOOSE j \in 1..Len(s) : s[j] = ":" /\ \A h \in 1..(j - 1) : s[h] # ":"
         IN <<SubSeq(s, 1, c - 1)>> \o Split(SubSeq(s, c + 1, Len(s)))
    ELSE <<s>>

\* parts.join(":")
RECURSIVE Join(_)
Join(parts) ==
  IF parts = <<>> THEN <<>>
  ELSE IF Len(parts) = 1 THEN parts[1]
  ELSE parts[1] \o <<":">> \o Join(Tail(parts))

getPlatformName(app) ==
  LET splitAppName == Split(app) IN
  IF Len(splitAppName) > 1 THEN Str(splitAppName[Len(splitAppName)]) ELSE Null

\* Faulty variant: only the first segment is kept.
getApplicationName_firstSegment(app) ==
  LET splitAppName == Split(app) IN
  IF Len(splitAppName) > 1 THEN splitAppName[1] ELSE app

getApplicationName(app) ==
  LET splitAppName == Split(app) IN
  IF Len(splitAppName) > 1 THEN Join(SubSeq(splitAppName, 1, Len(splitAppName) - 1)) ELSE app

UnableToStartMessage(appName) == <<"Unable to start application named", appName>>
NoPlatformNamedMessage(platformName) == <<"There is no platform named", platformName>>
MultiplePlatformsNamedMessage(platformName) == <<"There are multiple platforms named", platformName>>
NoPlatformsWithAppMessage(appName) == <<"There are no platforms with application named", appName>>
MultiplePlatformsWithAppMessage(appName) == <<"There are multiple platforms with application named", appName>>
MultipleApplicationsMessage(appName) == <<"There are multiple applications named", appName>>
\* Reading `.name` of undefined.
TypeErrorMessage == <<"TypeError: Cannot read property 'name' of undefined">>

\* `error.message || this.defaultErrorMessage`
MessageOr(message, default) == IF message # <<>> THEN message ELSE default

\* What `await this.getPlatform(...)` settles with: a platform (its position
\* in this.platforms, 0 for undefined) or an error.
Found(j) == [ok |-> TRUE, platform |-> j]
Failed(message) == [ok |-> FALSE, error |-> [message |-> message]]

\* Positions of the platforms named platformName.
PlatformsNamed(platformName) ==
  SelectSeq([j \in 1..Len(platforms) |-> j], LAMBDA j : platforms[j].name = platformName)

getUniquePlatform(platformName) ==
  LET fdc3Platforms == PlatformsNamed(platformName) IN
  IF Len(fdc3Platforms) = 0 THEN Failed(NoPlatformNamedMessage(platformName))
  ELSE IF Len(fdc3Platforms) > 1 THEN Failed(MultiplePlatformsNamedMessage(platformName))
  ELSE Found(fdc3Platforms[1])

platformHasMethod(platform, platformMethods, methodName) ==
  Len(SelectSeq(platformMethods, LAMBDA m : m.name = MethodFullName(platform.name, methodName))) > 0

\* getPlatform has settled: open resumes after `await this.getPlatform(...)`.
Resume(result) ==
  /\ acc' = [acc EXCEPT !.result = result]
  /\ pc' = "open_resume"
  /\ UNCHANGED <<idx, calls, outcome>>

ListApplicationsCall(j) ==
  InvokeCall(j, [name |-> MethodFullName(platforms[j].name, "ListApplications")], Undefined)

\* Lines 244-267 of getPlatform from the point where the platform at position
\* k of the listing platforms has been dealt with.
AfterListApplications(k, withApp) ==
  IF k < Len(acc.listing)
    THEN /\ idx' = k + 1
         /\ calls' = Append(calls, ListApplicationsCall(acc.listing[k + 1]))
         /\ acc' = [acc EXCEPT !.withApp = withApp]
         /\ pc' = "getPlatform_list"
         /\ UNCHANGED outcome
  ELSE IF Len(withApp) = 0
    THEN Resume(Failed(NoPlatformsWithAppMessage(acc.appName)))
  ELSE IF Len(withApp) > 1
    THEN Resume(Failed(MultiplePlatformsWithAppMessage(acc.appName)))
  ELSE /\ idx' = 1
       /\ calls' = Append(calls, DiscoverCall(withApp[1]))
       /\ acc' = [acc EXCEPT !.withApp = withApp]
       /\ pc' = "getPlatform_rediscover"
       /\ UNCHANGED outcome

\* Call: validation, name splitting, and getPlatform up to its first await.
open(app, context) ==
  /\ pc = "idle"
  /\ args' = [op |-> "open", app |-> app, context |-> context]
  /\ IF validateOpenParams(app, context) # NoError
       THEN /\ Settle(Rejected(validateOpenParams(app, context)))
            /\ UNCHANGED <<idx, acc, calls, defaultErrorMessage>>
     ELSE LET platformName == getPlatformName(app.v)
              appName == IF Truthy(platformName) THEN getApplicationName(app.v) ELSE app.v
              start == [appName |-> appName, listing |-> <<>>, withApp |-> <<>>, result |-> Found(0)]
          IN /\ defaultErrorMessage' = UnableToStartMessage(appName)
             /\ IF Truthy(platformName)
                  THEN /\ LET found == getUniquePlatform(platformName.v) IN
                          acc' = [start EXCEPT !.result =
                                    IF found.ok THEN found
                                    ELSE Failed(MessageOr(found.error.message, UnableToStartMessage(appName)))]
                       /\ pc' = "open_resume"
                       /\ UNCHANGED <<idx, calls, outcome>>
                ELSE IF Len(platforms) = 0
                  THEN /\ acc' = [start EXCEPT !.result = Failed(NoPlatformsWithAppMessage(appName))]
                       /\ pc' = "open_resume"
                       /\ UNCHANGED <<idx, calls, outcome>>
                ELSE /\ acc' = start
                     /\ idx' = 1
                     /\ calls' = Append(calls, DiscoverCall(1))
                     /\ pc' = "getPlatform_discover"
                     /\ UNCHANGED outcome
  /\ UNCHANGED <<platforms, replies>>
  /\ UNCHANGED <<tasks, bus, listenVars, suspended>>

\* First loop of getPlatform: discoverMethods of platform idx resolved.
getPlatform_discovered ==
  /\ pc = "getPlatform_discover"
  /\ LET listing == IF platformHasMethod(platforms[idx], platforms[idx].methods, "ListApplications")
                      THEN Append(acc.listing, idx) ELSE acc.listing
     IN IF idx < Len(platforms)
          THEN /\ idx' = idx + 1
               /\ calls' = Append(calls, DiscoverCall(idx + 1))
               /\ acc' = [acc EXCEPT !.listing = listing]
               /\ UNCHANGED <<pc, outcome>>
        ELSE IF Len(listing) = 0
          THEN /\ acc' = [acc EXCEPT !.listing = listing,
                                     !.result = Failed(NoPlatformsWithAppMessage(acc.appName))]
               /\ pc' = "open_resume"
               /\ UNCHANGED <<idx, calls, outcome>>
        ELSE /\ idx' = 1
             /\ calls' = Append(calls, ListApplicationsCall(listing[1]))
             /\ acc' = [acc EXCEPT !.listing = listing]
             /\ pc' = "getPlatform_list"
             /\ UNCHANGED outcome
  /\ Reply("resolved")
  /\ UNCHANGED <<platforms, defaultErrorMessage, args>>
  /\ UNCHANGED <<tasks, bus, listenVars, suspended>>

\* A discoverMethods call of getPlatform rejected: getPlatform rejects.
getPlatform_discoverRejected ==
  /\ pc \in {"getPlatform_discover", "getPlatform_rediscover"}
  /\ \E e \in RemoteErrors : Resume([ok |-> FALSE, error |-> e])
  /\ Reply("rejected")
  /\ UNCHANGED <<platforms, defaultErrorMessage, args>>
  /\ UNCHANGED <<tasks, bus, listenVars, suspended>>

\* platformHasProvidedApp: the ListApplications invocation resolved.
getPlatform_listed ==
  /\ pc = "getPlatform_list"
  /\ LET platformApplications == platforms[acc.listing[idx]].apps
         providedAppList == SelectSeq(platformApplications, LAMBDA application : application.name = acc.appName)
     IN IF Len(providedAppList) > 1
          THEN Resume(Failed(MultipleApplicationsMessage(acc.appName)))
        ELSE AfterListApplications(idx,
               IF Len(providedAppList) = 1 THEN Append(acc.withApp, acc.listing[idx]) ELSE acc.withApp)
  /\ Reply("resolved")
  /\ UNCHANGED <<platforms, defaultErrorMessage, args>>
  /\ UNCHANGED <<tasks, bus, listenVars, suspended>>

\* Faulty variant: a failed ListApplications invocation fails getPlatform.
getPlatform_listRejected_fatal ==
  /\ pc = "getPlatform_list"
  /\ \E e \in RemoteErrors : Resume([ok |-> FALSE, error |-> e])
  /\ Reply("rejected")
  /\ UNCHANGED <<platforms, defaultErrorMessage, args>>
  /\ UNCHANGED <<tasks, bus, listenVars, suspended>>

\* platformHasProvidedApp: the ListApplications invocation rejected.
getPlatform_listRejected ==
  /\ pc = "getPlatform_list"
  /\ AfterListApplications(idx, acc.withApp)
  /\ Reply("rejected")
  /\ UNCHANGED <<platforms, defaultErrorMessage, args>>
  /\ UNCHANGED <<tasks, bus, listenVars, suspended>>

\* Last loop of getPlatform: discoverMethods of the one platform with the app.
getPlatform_rediscovered ==
  /\ pc = "getPlatform_rediscover"
  /\ LET p == acc.withApp[1]
         starting == IF platformHasMethod(platforms[p], platforms[p].methods, "StartApplication")
                       THEN <<p>> ELSE <<>>
     IN Resume(IF Len(starting) > 0 THEN Found(starting[1]) ELSE Found(0))
  /\ Reply("resolved")
  /\ UNCHANGED <<platforms, defaultErrorMessage, args>>
  /\ UNCHANGED <<tasks, bus, listenVars, suspended>>

StartApplicationCall(j, appName, context) ==
  InvokeCall(j, [name |-> MethodFullName(platforms[j].name, "StartApplication")],
             [application |-> appName, context |-> context])

\* open after `await this.getPlatform(...)`: lines 44-51.
open_resumed ==
  /\ pc = "open_resume"
  /\ IF ~acc.result.ok
       THEN /\ Settle(Rejected(MessageOr(acc.result.error.message, defaultErrorMessage)))
            /\ UNCHANGED calls
     ELSE IF acc.result.platform = 0
       THEN /\ Settle(Rejected(TypeErrorMessage))
            /\ UNCHANGED calls
     ELSE /\ calls' = Append(calls, StartApplicationCall(acc.result.platform, acc.appName, args.context))
          /\ pc' = "open_start"
          /\ UNCHANGED outcome
  /\ UNCHANGED <<platforms, defaultErrorMessage, args, idx, acc, replies>>
  /\ UNCHANGED <<tasks, bus, listenVars, suspended>>

\* The StartApplication invocation resolved: `return startInvokeResult.result`.
open_started ==
  /\ pc = "open_start"
  /\ Settle(Resolved(ResultOf(calls[Len(calls)])))
  /\ Reply("resolved")
  /\ UNCHANGED <<platforms, defaultErrorMessage, args, idx, acc, calls>>
  /\ UNCHANGED <<tasks, bus, listenVars, suspended>>

open_startRejected ==
  /\ pc = "open_start"
  /\ Settle(Rejected(defaultErrorMessage))
  /\ Reply("rejected")
  /\ UNCHANGED <<platforms, defaultErrorMessage, args, idx, acc, calls>>
  /\ UNCHANGED <<tasks, bus, listenVars, suspended>>

\* What a platform's discoverMethods may resolve with during open: each of
\* the two capabilities is exposed or not.
OpenMethodLists ==
  [pn \in PlatformTypeSet |->
    LET list == [name |-> MethodFullName(pn, "ListApplications"), peer |-> [applicationName |-> pn], intent |-> <<>>]
        start == [name |-> MethodFullName(pn, "StartApplication"), peer |-> [applicationName |-> pn], intent |-> <<>>]
    IN { <<>>, <<list>>, <<start>>, <<list, start>> }]

\* What a platform's ListApplications may resolve with.
ApplicationLists == { <<>>, <<[name |-> AppA]>>, <<[name |-> AppA], [name |-> AppA]>> }

\* Arguments open is called with: bare and qualified names, and one call per
\* validation failure.
OpenArgs ==
  ({ Str(<<"a">>), Str(<<"z">>), Str(<<"a", ":", "p">>), Str(<<"a", ":", "q">>),
     Str(<<"a", ":", "z", ":", "q">>), Str(<<"a", ":", "x">>), Str(<<"a", ":">>) } \X {Ctx1})
  \cup { <<Str(<<"a", ":", "p">>), Undefined>>, <<Undefined, Ctx1>>, <<Num("7"), Ctx1>>,
         <<Str(<<"a">>), Str(<<"c">>)>> }

openCall == \E a \in OpenArgs : open(a[1], a[2])

InitOpen == InitWith(PlatformLists(OpenMethodLists, ApplicationLists))

NextOpen ==
  \/ openCall
  \/ getPlatform_discovered
  \/ getPlatform_discoverRejected
  \/ getPlatform_listed
  \/ getPlatform_listRejected
  \/ getPlatform_rediscovered
  \/ open_resumed
  \/ open_started
  \/ open_startRejected
  \/ Return

SpecOpen == InitOpen /\ [][NextOpen]_vars

\* ------------------------------------------------------- overlapping open
\* The call of open that is running waits, or has settled, and the event
\* loop turns to the other call: their locals change places, the fields of
\* the engine are shared.
open_switch ==
  /\ pc # "idle" \/ suspended.pc # "idle"
  /\ pc' = suspended.pc
  /\ args' = suspended.args
  /\ idx' = suspended.idx
  /\ acc' = suspended.acc
  /\ calls' = suspended.calls
  /\ replies' = suspended.replies
  /\ outcome' = suspended.outcome
  /\ suspended' = [pc |-> pc, args |-> args, idx |-> idx, acc |-> acc, calls |-> calls,
                   replies |-> replies, outcome |-> outcome]
  /\ UNCHANGED <<platforms, defaultErrorMessage, tasks, bus, listenVars>>

\* Two calls of open on an engine over one platform.
InitOverlap == InitWith(PlatformListsOfLen(OpenMethodLists, ApplicationLists, 1))

NextOverlap ==
  \/ openCall
  \/ getPlatform_discovered
  \/ getPlatform_discoverRejected
  \/ getPlatform_listed
  \/ getPlatform_listRejected
  \/ getPlatform_rediscovered
  \/ open_resumed
  \/ open_started
  \/ open_startRejected
  \/ Return
  \/ open_switch

SpecOverlap == InitOverlap /\ [][NextOverlap]_vars

\* ------------------------------------------ findIntent, findIntentsByContext
\* The comparison of a supplied context with a declared one.
SameContext(context, declared) == JSONstringify(context) = JSONstringify(declared)

\* The condition under which findIntent pushes an application.
FindIntentMatches(methodIntent, intent, context) ==
  /\ methodIntent.name = intent.v
  /\ ~Truthy(context) \/ SameContext(context, methodIntent.context)

\* Faulty variant: an application already in the list is not pushed again.
PushApp_unlessPresent(apps, method) ==
  IF \E k \in 1..Len(apps) : apps[k].name = method.peer.applicationName
    THEN apps ELSE Append(apps, [name |-> method.peer.applicationName])

\* appIntent.apps.push({name: method.peer.applicationName})
PushApp(apps, method) == Append(apps, [name |-> method.peer.applicationName])

\* The loop over method.intent, from position k on.
RECURSIVE FindIntentOverIntents(_, _, _, _, _)
FindIntentOverIntents(apps, method, k, intent, context) ==
  IF k > Len(method.intent) THEN apps
  ELSE FindIntentOverIntents(
         IF FindIntentMatches(method.intent[k], intent, context) THEN PushApp(apps, method) ELSE apps,
         method, k + 1, intent, context)

\* The loop over the discovered methods.
RECURSIVE FindIntentOverMethods(_, _, _, _)
FindIntentOverMethods(apps, methods, intent, context) ==
  IF methods = <<>> THEN apps
  ELSE FindIntentOverMethods(FindIntentOverIntents(apps, Head(methods), 1, intent, context),
                             Tail(methods), intent, context)

AppIntent(name, apps) == [intent |-> [name |-> name, displayName |-> name], apps |-> apps]

\* Call: validation, then the first iteration up to `await discoverMethods()`.
findIntent(intent, context) ==
  /\ pc = "idle"
  /\ args' = [op |-> "findIntent", intent |-> intent, context |-> context]
  /\ IF validateIntentAndContextParams(intent, context) # NoError
       THEN /\ Settle(Rejected(validateIntentAndContextParams(intent, context)))
            /\ UNCHANGED <<idx, acc, calls>>
     ELSE IF Len(platforms) = 0
       THEN /\ Settle(Resolved(AppIntent(intent.v, <<>>)))
            /\ UNCHANGED <<idx, acc, calls>>
     ELSE /\ idx' = 1
          /\ acc' = <<>>
          /\ calls' = Append(calls, DiscoverCall(1))
          /\ pc' = "findIntent_discover"
          /\ UNCHANGED outcome
  /\ UNCHANGED <<platforms, defaultErrorMessage, replies>>
  /\ UNCHANGED <<tasks, bus, listenVars, suspended>>

\* discoverMethods of platform idx resolved.
findIntent_discovered ==
  /\ pc = "findIntent_discover"
  /\ LET apps == FindIntentOverMethods(acc, platforms[idx].methods, args.intent, args.context) IN
     /\ acc' = apps
     /\ IF idx < Len(platforms)
          THEN /\ idx' = idx + 1
               /\ calls' = Append(calls, DiscoverCall(idx + 1))
               /\ UNCHANGED <<pc, outcome>>
          ELSE /\ Settle(Resolved(AppIntent(args.intent.v, apps)))
               /\ UNCHANGED <<idx, calls>>
  /\ Reply("resolved")
  /\ UNCHANGED <<platforms, defaultErrorMessage, args>>
  /\ UNCHANGED <<tasks, bus, listenVars, suspended>>

\* A discoverMethods call of findIntent / findIntentsByContext rejected.
find_discoverRejected ==
  /\ pc \in {"findIntent_discover", "findIntentsByContext_discover"}
  /\ \E e \in RemoteErrors : Settle([kind |-> "rejected", error |-> e])
  /\ Reply("rejected")
  /\ UNCHANGED <<platforms, defaultErrorMessage, args, idx, acc, calls>>
  /\ UNCHANGED <<tasks, bus, listenVars, suspended>>

\* appIntents.find(appIntent => appIntent.intent.name === name): its position.
FindAppIntent(appIntents, name) ==
  IF \E e \in 1..Len(appIntents) : appIntents[e].intent.name = name
    THEN CHOOSE e \in 1..Len(appIntents) :
           /\ appIntents[e].intent.name = name
           /\ \A h \in 1..(e - 1) : appIntents[h].intent.name # name
    ELSE 0

\* Faulty variant: a new entry is pushed for every match.
GroupMatch_alwaysNewEntry(appIntents, methodIntent, method) ==
  Append(appIntents, AppIntent(methodIntent.name, <<[name |-> method.peer.applicationName]>>))

\* Lines 92-101: add the application to the entry of the intent name.
GroupMatch(appIntents, methodIntent, method) ==
  LET e == FindAppIntent(appIntents, methodIntent.name) IN
  IF e # 0
    THEN [appIntents EXCEPT ![e].apps = Append(@, [name |-> method.peer.applicationName])]
    ELSE Append(appIntents, AppIntent(methodIntent.name, <<[name |-> method.peer.applicationName]>>))

RECURSIVE ByContextOverIntents(_, _, _, _)
ByContextOverIntents(appIntents, method, k, context) ==
  IF k > Len(method.intent) THEN appIntents
  ELSE ByContextOverIntents(
         IF SameContext(method.intent[k].context, context)
           THEN GroupMatch(appIntents, method.intent[k], method) ELSE appIntents,
         method, k + 1, context)

RECURSIVE ByContextOverMethods(_, _, _)
ByContextOverMethods(appIntents, methods, context) ==
  IF methods = <<>> THEN appIntents
  ELSE ByContextOverMethods(ByContextOverIntents(appIntents, Head(methods), 1, context),
                            Tail(methods), context)

findIntentsByContext(context) ==
  /\ pc = "idle"
  /\ args' = [op |-> "findIntentsByContext", context |-> context]
  /\ IF validateContext(context) # NoError
       THEN /\ Settle(Rejected(validateContext(context)))
            /\ UNCHANGED <<idx, acc, calls>>
     ELSE IF Len(platforms) = 0
       THEN /\ Settle(Resolved(<<>>))
            /\ UNCHANGED <<idx, acc, calls>>
     ELSE /\ idx' = 1
          /\ acc' = <<>>
          /\ calls' = Append(calls, DiscoverCall(1))
          /\ pc' = "findIntentsByContext_discover"
          /\ UNCHANGED outcome
  /\ UNCHANGED <<platforms, defaultErrorMessage, replies>>
  /\ UNCHANGED <<tasks, bus, listenVars, suspended>>

findIntentsByContext_discovered ==
  /\ pc = "findIntentsByContext_discover"
  /\ LET appIntents == ByContextOverMethods(acc, platforms[idx].methods, args.context) IN
     /\ acc' = appIntents
     /\ IF idx < Len(platforms)
          THEN /\ idx' = idx + 1
               /\ calls' = Append(calls, DiscoverCall(idx + 1))
               /\ UNCHANGED <<pc, outcome>>
          ELSE /\ Settle(Resolved(appIntents))
               /\ UNCHANGED <<idx, calls>>
  /\ Reply("resolved")
  /\ UNCHANGED <<platforms, defaultErrorMessage, args>>
  /\ UNCHANGED <<tasks, bus, listenVars, suspended>>

\* Methods a platform may expose to the find operations: one of application
\* "a" declaring Y and X for Ctx1, one of application "z" declaring X for
\* Ctx1 and Y for Ctx2.
FindMethodPool ==
  [pn \in PlatformTypeSet |->
    { [name |-> MethodFullName(pn, "M1"), peer |-> [applicationName |-> AppA],
       intent |-> <<[name |-> IntentY, context |-> Ctx1], [name |-> IntentX, context |-> Ctx1]>>],
      [name |-> MethodFullName(pn, "M2"), peer |-> [applicationName |-> AppZ],
       intent |-> <<[name |-> IntentX, context |-> Ctx1], [name |-> IntentY, context |-> Ctx2]>>] }]

\* Arguments of findIntent: valid combinations and one call per validation
\* failure.
FindIntentArgs ==
  ({Str(IntentX), Str(IntentY)} \X {Undefined, Ctx1, Ctx1Reordered, Ctx2})
  \cup { <<Undefined, Ctx1>>, <<Num("7"), Ctx1>>, <<Str(IntentX), Str(<<"c">>)>>,
         <<Str(IntentX), Obj(<< <<Key_name, Str(<<"n">>)>> >>)>> }

FindIntentsByContextArgs ==
  { Ctx1, Ctx1Reordered, Ctx2, Undefined, Str(<<"c">>),
    Obj(<< <<Key_type, Num("7")>> >>), Obj(<< <<Key_type, Str(<<"c">>)>>, <<Key_name, Num("7")>> >>) }

findIntentCall == \E a \in FindIntentArgs : findIntent(a[1], a[2])

findIntentsByContextCall == \E context \in FindIntentsByContextArgs : findIntentsByContext(context)

InitFind ==
  InitWith(PlatformLists([pn \in PlatformTypeSet |-> SeqsUpTo(FindMethodPool[pn], MaxMethods)], {<<>>}))

NextFind ==
  \/ findIntentCall
  \/ findIntent_discovered
  \/ findIntentsByContextCall
  \/ findIntentsByContext_discovered
  \/ find_discoverRejected
  \/ Return

SpecFind == InitFind /\ [][NextFind]_vars

\* -------------------------------------------------------------- broadcast
Threw(message) == [kind |-> "threw", error |-> [message |-> message]]
Returned == [kind |-> "returned"]

\* The error broadcast throws for its argument, if any.
broadcastError(context) ==
  IF ~Truthy(context) THEN <<"Context is mandatory parameter">>
  ELSE validateContext(context)

\* The filter callback of broadcast.
IsContextListener(platform, method) ==
  method.name = MethodFullName(platform.name, "ContextListener")

contextListenerMethods(platform) ==
  LET Test(m) == IsContextListener(platform, m) IN SelectSeq(platform.methods, Test)

\* The task forEach starts for platform j: it runs up to its first await,
\* having called discoverMethods.
StartedTask(j) ==
  [pc |-> "discover", methods |-> <<>>, k |-> 0,
   calls |-> <<DiscoverCall(j)>>, replies |-> <<>>]

\* Call: the checks, then one detached task per platform; broadcast returns
\* with every task waiting for its discovery.
broadcast(context) ==
  /\ pc = "idle"
  /\ args' = [op |-> "broadcast", context |-> context]
  /\ pc' = "done"
  /\ IF broadcastError(context) # NoError
       THEN /\ outcome' = Threw(broadcastError(context))
            /\ UNCHANGED tasks
       ELSE /\ outcome' = Returned
            /\ tasks' = [j \in 1..Len(platforms) |-> StartedTask(j)]
  /\ UNCHANGED <<platforms, defaultErrorMessage, idx, acc, calls, replies>>
  /\ UNCHANGED <<bus, listenVars, suspended>>

\* The task of platform j issues a call and waits for it.
Await(task, call, reply) ==
  [task EXCEPT !.calls = Append(@, call), !.replies = Append(@, reply)]

\* The task of platform j ends: normally, or in its catch block.
Finish(task, reply) ==
  [task EXCEPT !.pc = "done", !.replies = Append(@, reply)]

\* discoverMethods of platform j resolved: filter, first `await invoke(...)`.
broadcast_discovered(j) ==
  /\ j \in DOMAIN tasks
  /\ tasks[j].pc = "discover"
  /\ LET found == contextListenerMethods(platforms[j]) IN
     tasks' = [tasks EXCEPT ![j] =
       IF found = <<>> THEN Finish(@, "resolved")
       ELSE Await([@ EXCEPT !.pc = "invoke", !.methods = found, !.k = 1],
                  InvokeCall(j, found[1], args.context), "resolved")]
  /\ UNCHANGED <<platforms, defaultErrorMessage, pc, args, idx, acc, calls, replies, outcome>>
  /\ UNCHANGED <<bus, listenVars, suspended>>

\* Faulty variant: a rejected discovery ends the tasks of all platforms.
broadcast_discoverRejected_endingAll(j) ==
  /\ j \in DOMAIN tasks
  /\ tasks[j].pc = "discover"
  /\ tasks' = [i \in DOMAIN tasks |->
                 IF i = j THEN Finish(tasks[i], "rejected")
                 ELSE [tasks[i] EXCEPT !.pc = "done"]]
  /\ UNCHANGED <<platforms, defaultErrorMessage, pc, args, idx, acc, calls, replies, outcome>>
  /\ UNCHANGED <<bus, listenVars, suspended>>

\* discoverMethods of platform j rejected: `catch (error) { return; }`.
broadcast_discoverRejected(j) ==
  /\ j \in DOMAIN tasks
  /\ tasks[j].pc = "discover"
  /\ tasks' = [tasks EXCEPT ![j] = Finish(@, "rejected")]
  /\ UNCHANGED <<platforms, defaultErrorMessage, pc, args, idx, acc, calls, replies, outcome>>
  /\ UNCHANGED <<bus, listenVars, suspended>>

\* invoke resolved: the loop goes on to the next context-listener method.
broadcast_invoked(j) ==
  /\ j \in DOMAIN tasks
  /\ tasks[j].pc = "invoke"
  /\ tasks' = [tasks EXCEPT ![j] =
       IF @.k = Len(@.methods) THEN Finish(@, "resolved")
       ELSE Await([@ EXCEPT !.k = @ + 1],
                  InvokeCall(j, @.methods[@.k + 1], args.context), "resolved")]
  /\ UNCHANGED <<platforms, defaultErrorMessage, pc, args, idx, acc, calls, replies, outcome>>
  /\ UNCHANGED <<bus, listenVars, suspended>>

\* Faulty variant: a rejected invocation is issued again.
broadcast_invokeRejected_retrying(j) ==
  /\ j \in DOMAIN tasks
  /\ tasks[j].pc = "invoke"
  /\ Len(tasks[j].calls) <= Len(tasks[j].methods) + 1
  /\ tasks' = [tasks EXCEPT ![j] = Await(@, @.calls[Len(@.calls)], "rejected")]
  /\ UNCHANGED <<platforms, defaultErrorMessage, pc, args, idx, acc, calls, replies, outcome>>
  /\ UNCHANGED <<bus, listenVars, suspended>>

\* invoke rejected: `catch (error) { return; }` leaves the loop.
broadcast_invokeRejected(j) ==
  /\ j \in DOMAIN tasks
  /\ tasks[j].pc = "invoke"
  /\ tasks' = [tasks EXCEPT ![j] = Finish(@, "rejected")]
  /\ UNCHANGED <<platforms, defaultErrorMessage, pc, args, idx, acc, calls, replies, outcome>>
  /\ UNCHANGED <<bus, listenVars, suspended>>

\* The caller has the return value and every task has ended: the engine is
\* idle again.
broadcast_over ==
  /\ pc = "done"
  /\ \A j \in DOMAIN tasks : tasks[j].pc = "done"
  /\ pc' = "idle"
  /\ args' = <<>>
  /\ outcome' = Pending
  /\ tasks' = <<>>
  /\ UNCHANGED <<platforms, defaultErrorMessage, idx, acc, calls, replies>>
  /\ UNCHANGED <<bus, listenVars, suspended>>

\* What a platform's discoverMethods may resolve with: context-listener
\* methods of two applications, another method, and the context listener of
\* a platform of another name.
BroadcastMethodLists ==
  [pn \in PlatformTypeSet |->
    LET listenerA == [name |-> MethodFullName(pn, "ContextListener"), peer |-> [applicationName |-> AppA]]
        listenerZ == [name |-> MethodFullName(pn, "ContextListener"), peer |-> [applicationName |-> AppZ]]
        other == [name |-> MethodFullName(pn, "StartApplication"), peer |-> [applicationName |-> AppA]]
        foreign == [name |-> MethodFullName(<<"o">>, "ContextListener"), peer |-> [applicationName |-> AppA]]
    IN { <<>>, <<listenerA>>, <<other, listenerA>>, <<listenerA, foreign, listenerZ>> }]

BroadcastArgs ==
  { Ctx1, Undefined, Str(<<"c">>), Obj(<< <<Key_name, Str(<<"n">>)>> >>) }

broadcastCall == \E context \in BroadcastArgs : broadcast(context)

TaskStep(j) ==
  \/ broadcast_discovered(j)
  \/ broadcast_discoverRejected(j)
  \/ broadcast_invoked(j)
  \/ broadcast_invokeRejected(j)

InitBroadcast == InitWith(PlatformLists(BroadcastMethodLists, {<<>>}))

NextBroadcast ==
  \/ broadcastCall
  \/ \E j \in 1..MaxPlatforms : broadcast_discovered(j)
  \/ \E j \in 1..MaxPlatforms : broadcast_discoverRejected(j)
  \/ \E j \in 1..MaxPlatforms : broadcast_invoked(j)
  \/ \E j \in 1..MaxPlatforms : broadcast_invokeRejected(j)
  \/ broadcast_over

SpecBroadcast == InitBroadcast /\ [][NextBroadcast]_vars

\* Every remote call settles, and the task waiting for it then resumes.
SpecBroadcastFair ==
  SpecBroadcast /\ \A j \in 1..MaxPlatforms : WF_vars(TaskStep(j))

\* -------------------------------------------------------------- listeners
MaxListeners == 2

Fun(id) == [t |-> "function", v |-> id]

validateAddIntentListener(intent, handler) ==
  IF validateIntent(intent) # NoError THEN validateIntent(intent)
  ELSE IF ~Truthy(handler) THEN <<"Handler is mandatory parameter">>
  ELSE IF handler.t # "function" THEN <<"Handler must be of type function">>
  ELSE NoError

\* The checks at the head of addContextListener.
addContextListenerError(handler) ==
  IF ~Truthy(handler) THEN <<"Handler is mandatory parameter">>
  ELSE IF handler.t # "function" THEN <<"Handler must be of type function">>
  ELSE NoError

\* registry.add(key, callback): the callback goes to the end of the channel.
RegistryAdd(reg, key, callback) == [reg EXCEPT ![key] = Append(@, callback)]

\* The function registry.add returns: it takes the first occurrence of the
\* callback off the channel, if there is one.
RECURSIVE WithoutFirst(_, _)
WithoutFirst(callbacks, callback) ==
  IF callbacks = <<>> THEN <<>>
  ELSE IF Head(callbacks) = callback THEN Tail(callbacks)
  ELSE <<Head(callbacks)>> \o WithoutFirst(Tail(callbacks), callback)

RegistryRemove(reg, key, callback) ==
  [reg EXCEPT ![key] = WithoutFirst(@, callback)]

\* registry.execute(key, argument): every callback of the channel is called
\* once, in order of registration.
RegistryExecute(reg, key, argument) ==
  [i \in 1..Len(reg[key]) |-> [callback |-> reg[key][i], argument |-> argument]]

\* One Fdc3Impl instance's platform, with what the instance installed on it.
ListeningPlatform(j) == [name |-> PlatformTypes[j], registered |-> <<>>, hooks |-> <<>>]

\* The Listener a call returns: its unsubscribe closes over the channel and
\* the callback.  Which instance returned it, for which intent, and whether
\* unsubscribe was called never (0), once (1) or again (2) is kept for the
\* properties.
ListenerOf(key, callback, e, intent) ==
  [key |-> key, callback |-> callback, engine |-> e, intent |-> intent, unsubscribed |-> 0]

\* addIntentListener on instance e.
addIntentListener(e, intent, handler) ==
  /\ event = NoEvent
  /\ Len(listeners) < MaxListeners
  /\ IF validateAddIntentListener(intent, handler) # NoError
       THEN /\ event' = Threw(validateAddIntentListener(intent, handler))
            /\ UNCHANGED <<registry, engines, listeners>>
       ELSE /\ registry' = RegistryAdd(registry, "add-intent", handler)
            /\ engines' = [engines EXCEPT ![e] =
                 [j \in DOMAIN @ |-> [@[j] EXCEPT !.hooks = Append(@, intent.v)]]]
            /\ listeners' = Append(listeners, ListenerOf("add-intent", handler, e, intent.v))
            /\ event' = [kind |-> "listener", listener |-> Len(listeners) + 1]
  /\ UNCHANGED <<platforms, defaultErrorMessage, pc, args, idx, acc, calls, replies, outcome, tasks, bus, suspended>>

\* addContextListener on instance e.
addContextListener(e, handler) ==
  /\ event = NoEvent
  /\ Len(listeners) < MaxListeners
  /\ IF addContextListenerError(handler) # NoError
       THEN /\ event' = Threw(addContextListenerError(handler))
            /\ UNCHANGED <<registry, engines, listeners>>
       ELSE /\ registry' = RegistryAdd(registry, "add-context", handler)
            /\ engines' = [engines EXCEPT ![e] =
                 [j \in DOMAIN @ |->
                    [@[j] EXCEPT !.registered =
                       Append(@, MethodFullName(engines[e][j].name, "ContextListener"))]]]
            /\ listeners' = Append(listeners, ListenerOf("add-context", handler, e, <<>>))
            /\ event' = [kind |-> "listener", listener |-> Len(listeners) + 1]
  /\ UNCHANGED <<platforms, defaultErrorMessage, pc, args, idx, acc, calls, replies, outcome, tasks, bus, suspended>>

\* unsubscribe of the Listener returned l-th.
unsubscribe(l) ==
  /\ event = NoEvent
  /\ l \in DOMAIN listeners
  /\ registry' = RegistryRemove(registry, listeners[l].key, listeners[l].callback)
  /\ listeners' = [listeners EXCEPT ![l].unsubscribed = IF @ < 2 THEN @ + 1 ELSE @]
  /\ event' = [kind |-> "unsubscribed", listener |-> l]
  /\ UNCHANGED engines
  /\ UNCHANGED <<platforms, defaultErrorMessage, pc, args, idx, acc, calls, replies, outcome, tasks, bus, suspended>>

\* onInvoke of a method addContextListener registered on platform j of
\* instance e: a peer invokes it with a context.
contextListenerInvoked(e, j, context) ==
  /\ event = NoEvent
  /\ e \in DOMAIN engines
  /\ j \in DOMAIN engines[e]
  /\ engines[e][j].registered # <<>>
  /\ event' = [kind |-> "invoked", engine |-> e, platform |-> j, context |-> context,
               called |-> RegistryExecute(registry, "add-context", context)]
  /\ UNCHANGED <<registry, engines, listeners>>
  /\ UNCHANGED <<platforms, defaultErrorMessage, pc, args, idx, acc, calls, replies, outcome, tasks, bus, suspended>>

\* The loop of one hook over the declared intents of a method.
RECURSIVE HookOverIntents(_, _, _)
HookOverIntents(reg, methodIntents, intent) ==
  IF methodIntents = <<>> THEN <<>>
  ELSE (IF Head(methodIntents).name = intent
          THEN RegistryExecute(reg, "add-intent", Head(methodIntents).context)
          ELSE <<>>)
       \o HookOverIntents(reg, Tail(methodIntents), intent)

\* Faulty variant: only the hook installed first runs.
RECURSIVE HooksRun_firstOnly(_, _, _)
HooksRun_firstOnly(reg, hooks, method) ==
  IF hooks = <<>> THEN <<>>
  ELSE HookOverIntents(reg, method.intent, Head(hooks))

\* The platform calls every hook installed on it, in order of installation.
RECURSIVE HooksRun(_, _, _)
HooksRun(reg, hooks, method) ==
  IF hooks = <<>> THEN <<>>
  ELSE HookOverIntents(reg, method.intent, Head(hooks)) \o HooksRun(reg, Tail(hooks), method)

\* Platform j of instance e reports a newly registered method.
methodRegistered(e, j, method) ==
  /\ event = NoEvent
  /\ e \in DOMAIN engines
  /\ j \in DOMAIN engines[e]
  /\ engines[e][j].hooks # <<>>
  /\ event' = [kind |-> "registered", engine |-> e, platform |-> j, method |-> method,
               called |-> HooksRun(registry, engines[e][j].hooks, method)]
  /\ UNCHANGED <<registry, engines, listeners>>
  /\ UNCHANGED <<platforms, defaultErrorMessage, pc, args, idx, acc, calls, replies, outcome, tasks, bus, suspended>>

\* The call or the platform event is over.
listen_over ==
  /\ event # NoEvent
  /\ event' = NoEvent
  /\ UNCHANGED <<registry, engines, listeners>>
  /\ UNCHANGED <<platforms, defaultErrorMessage, pc, args, idx, acc, calls, replies, outcome, tasks, bus, suspended>>

Handlers == {Fun("h1"), Fun("h2")}

\* Methods a platform may report as newly registered.
NewMethods ==
  { [name |-> <<"M1">>, intent |-> <<[name |-> IntentX, context |-> Ctx1]>>],
    [name |-> <<"M2">>, intent |-> <<[name |-> IntentY, context |-> Ctx2],
                                     [name |-> IntentX, context |-> Ctx1]>>],
    [name |-> <<"M3">>, intent |-> <<>>] }

AddIntentListenerArgs ==
  ({Str(IntentX), Str(IntentY)} \X Handlers)
  \cup { <<Undefined, Fun("h1")>>, <<Str(IntentX), Undefined>>, <<Str(IntentX), Str(<<"h">>)>> }

AddContextListenerArgs == Handlers \cup { Undefined, Str(<<"h">>) }

\* Two Fdc3Impl instances in one process: the first over MaxPlatforms
\* platforms, the second over one.
InitListen ==
  /\ platforms = <<>>
  /\ defaultErrorMessage = Undefined
  /\ pc = "idle"
  /\ args = <<>>
  /\ idx = 0
  /\ acc = <<>>
  /\ calls = <<>>
  /\ replies = <<>>
  /\ outcome = Pending
  /\ tasks = <<>>
  /\ bus = <<>>
  /\ registry = EmptyRegistry
  /\ engines = << [j \in 1..MaxPlatforms |-> ListeningPlatform(j)],
                  [j \in 1..1 |-> ListeningPlatform(j)] >>
  /\ listeners = <<>>
  /\ event = NoEvent
  /\ suspended = NoCall

NextListen ==
  \/ \E e \in 1..2, a \in AddIntentListenerArgs : addIntentListener(e, a[1], a[2])
  \/ \E e \in 1..2, handler \in AddContextListenerArgs : addContextListener(e, handler)
  \/ \E l \in 1..MaxListeners : unsubscribe(l)
  \/ \E e \in 1..2, j \in 1..MaxPlatforms, context \in {Ctx1, Ctx2} : contextListenerInvoked(e, j, context)
  \/ \E e \in 1..2, j \in 1..MaxPlatforms, method \in NewMethods : methodRegistered(e, j, method)
  \/ listen_over

SpecListen == InitListen /\ [][NextListen]_vars

\* ---------------------------------------------------------------- Fdc3Bus
\* Connect attempts of one platform that may be outstanding together.
MaxPending == 2
\* Rejections after which a platform's connect succeeds.
MaxRejections == 1

DuplicateTypesMessage == <<"Multiple platforms have the same type.">>

\* new Set(interopPlatformNames).size
SetSize(names) == Cardinality({names[j] : j \in 1..Len(names)})

\* Fdc3Bus and, per descriptor, its interval, the connect calls started,
\* outstanding, rejected and resolved, and which connection's peer resolved
\* the promise of connectUntilReady (0: none yet).
NoBus ==
  [pc |-> "idle", descriptors |-> <<>>, error |-> <<>>, timers |-> <<>>,
   started |-> <<>>, pending |-> <<>>, rejected |-> <<>>, connected |-> <<>>, peer |-> <<>>]

\* Faulty variant: the types are compared only after the connections were
\* started.
Fdc3Bus_connectingFirst(interopPlatforms) ==
  /\ bus.pc = "idle"
  /\ bus' = [pc |-> IF Len(interopPlatforms) # SetSize(interopPlatforms)
                      THEN "rejected" ELSE "connecting",
             descriptors |-> interopPlatforms,
             error |-> IF Len(interopPlatforms) # SetSize(interopPlatforms)
                         THEN DuplicateTypesMessage ELSE <<>>,
             timers |-> [j \in 1..Len(interopPlatforms) |-> "running"],
             started |-> [j \in 1..Len(interopPlatforms) |-> 0],
             pending |-> [j \in 1..Len(interopPlatforms) |-> 0],
             rejected |-> [j \in 1..Len(interopPlatforms) |-> 0],
             connected |-> [j \in 1..Len(interopPlatforms) |-> 0],
             peer |-> [j \in 1..Len(interopPlatforms) |-> 0]]
  /\ UNCHANGED <<platforms, defaultErrorMessage, pc, args, idx, acc, calls, replies, outcome>>
  /\ UNCHANGED <<tasks, listenVars, suspended>>

\* Call: the check of the types, then connectUntilReady for every descriptor,
\* each of which starts its interval; Fdc3Bus waits for Promise.all.
Fdc3Bus(interopPlatforms) ==
  /\ bus.pc = "idle"
  /\ IF Len(interopPlatforms) # SetSize(interopPlatforms)
       THEN bus' = [bus EXCEPT !.pc = "rejected", !.descriptors = interopPlatforms,
                               !.error = DuplicateTypesMessage]
       ELSE bus' = [pc |-> "connecting",
                    descriptors |-> interopPlatforms,
                    error |-> <<>>,
                    timers |-> [j \in 1..Len(interopPlatforms) |-> "running"],
                    started |-> [j \in 1..Len(interopPlatforms) |-> 0],
                    pending |-> [j \in 1..Len(interopPlatforms) |-> 0],
                    rejected |-> [j \in 1..Len(interopPlatforms) |-> 0],
                    connected |-> [j \in 1..Len(interopPlatforms) |-> 0],
                    peer |-> [j \in 1..Len(interopPlatforms) |-> 0]]
  /\ UNCHANGED <<platforms, defaultErrorMessage, pc, args, idx, acc, calls, replies, outcome>>
  /\ UNCHANGED <<tasks, listenVars, suspended>>

\* The interval of descriptor j fires: interopPlatform.connect(...) is called.
tick(j) ==
  /\ j \in DOMAIN bus.timers
  /\ bus.timers[j] = "running"
  /\ bus.pending[j] < MaxPending
  /\ bus' = [bus EXCEPT !.started[j] = @ + 1, !.pending[j] = @ + 1]
  /\ UNCHANGED <<platforms, defaultErrorMessage, pc, args, idx, acc, calls, replies, outcome>>
  /\ UNCHANGED <<tasks, listenVars, suspended>>

\* Faulty variant: the interval is left running.
connect_resolved_keepingTimer(j) ==
  /\ j \in DOMAIN bus.pending
  /\ bus.pending[j] > 0
  /\ bus' = [bus EXCEPT !.pending[j] = @ - 1,
                        !.connected[j] = @ + 1,
                        !.peer[j] = IF @ = 0 THEN bus.connected[j] + 1 ELSE @]
  /\ UNCHANGED <<platforms, defaultErrorMessage, pc, args, idx, acc, calls, replies, outcome>>
  /\ UNCHANGED <<tasks, listenVars, suspended>>

\* A connect of descriptor j resolved: clearInterval, and resolve(interopPeer),
\* which has an effect the first time only.
connect_resolved(j) ==
  /\ j \in DOMAIN bus.pending
  /\ bus.pending[j] > 0
  /\ bus' = [bus EXCEPT !.pending[j] = @ - 1,
                        !.connected[j] = @ + 1,
                        !.timers[j] = "cleared",
                        !.peer[j] = IF @ = 0 THEN bus.connected[j] + 1 ELSE @]
  /\ UNCHANGED <<platforms, defaultErrorMessage, pc, args, idx, acc, calls, replies, outcome>>
  /\ UNCHANGED <<tasks, listenVars, suspended>>

\* Faulty variant: a rejected connect rejects Fdc3Bus.
connect_rejected_failingBus(j) ==
  /\ j \in DOMAIN bus.pending
  /\ bus.pending[j] > 0
  /\ bus.rejected[j] < MaxRejections
  /\ bus' = [bus EXCEPT !.pending[j] = @ - 1, !.rejected[j] = @ + 1,
                        !.pc = IF @ = "connecting" THEN "rejected" ELSE @]
  /\ UNCHANGED <<platforms, defaultErrorMessage, pc, args, idx, acc, calls, replies, outcome>>
  /\ UNCHANGED <<tasks, listenVars, suspended>>

\* A connect of descriptor j rejected: `.catch(() => { return; })`.
connect_rejected(j) ==
  /\ j \in DOMAIN bus.pending
  /\ bus.pending[j] > 0
  /\ bus.rejected[j] < MaxRejections
  /\ bus' = [bus EXCEPT !.pending[j] = @ - 1, !.rejected[j] = @ + 1]
  /\ UNCHANGED <<platforms, defaultErrorMessage, pc, args, idx, acc, calls, replies, outcome>>
  /\ UNCHANGED <<tasks, listenVars, suspended>>

\* Promise.all resolved: the peers become platform handles, in the order of
\* the descriptors, and Fdc3Bus resolves with new Fdc3Impl(platforms).
interopPlatformsToPlatforms ==
  /\ bus.pc = "connecting"
  /\ \A j \in DOMAIN bus.peer : bus.peer[j] # 0
  /\ platforms' = [j \in DOMAIN bus.peer |->
                     [name |-> bus.descriptors[j], methods |-> <<>>, apps |-> <<>>]]
  /\ bus' = [bus EXCEPT !.pc = "resolved"]
  /\ UNCHANGED <<defaultErrorMessage, pc, args, idx, acc, calls, replies, outcome>>
  /\ UNCHANGED <<tasks, listenVars, suspended>>

\* The descriptor lists Fdc3Bus is called with: types may repeat.
DescriptorLists ==
  SeqsUpTo({PlatformTypes[j] : j \in 1..MaxPlatforms}, MaxPlatforms)

InitBus ==
  /\ platforms = <<>>
  /\ defaultErrorMessage = Undefined
  /\ pc = "idle"
  /\ args = <<>>
  /\ idx = 0
  /\ acc = <<>>
  /\ calls = <<>>
  /\ replies = <<>>
  /\ outcome = Pending
  /\ tasks = <<>>
  /\ bus = NoBus
  /\ registry = EmptyRegistry
  /\ engines = <<>>
  /\ listeners = <<>>
  /\ event = NoEvent
  /\ suspended = NoCall

\* Descriptor j's connect call settles.
connect_settled(j) == connect_resolved(j) \/ connect_rejected(j)

NextBus ==
  \/ \E interopPlatforms \in DescriptorLists : Fdc3Bus(interopPlatforms)
  \/ \E j \in 1..MaxPlatforms : tick(j)
  \/ \E j \in 1..MaxPlatforms : connect_resolved(j)
  \/ \E j \in 1..MaxPlatforms : connect_rejected(j)
  \/ interopPlatformsToPlatforms

SpecBus == InitBus /\ [][NextBus]_vars

\* A running interval keeps firing, every connect call settles, and a
\* platform's connect rejects MaxRejections times at most.
SpecBusFair ==
  /\ SpecBus
  /\ \A j \in 1..MaxPlatforms : WF_vars(tick(j)) /\ WF_vars(connect_settled(j))
  /\ WF_vars(interopPlatformsToPlatforms)

\* ------------------------------------------------- properties: raiseIntent
Declares(method, name) ==
  \E k \in 1..Len(method.intent) : method.intent[k].name = name

\* Positions of platform j's methods that declare the intent `name`.
DeclaringAt(j, name) ==
  {k \in 1..Len(platforms[j].methods) : Declares(platforms[j].methods[k], name)}

\* ... and whose peer application is `target`.
TargetedAt(j, name, target) ==
  {k \in DeclaringAt(j, name) : platforms[j].methods[k].peer.applicationName = target}

TheOnly(S) == CHOOSE x \in S : TRUE

RaiseValid ==
  /\ pc # "idle"
  /\ args.op = "raiseIntent"
  /\ validateRaiseIntent(args.intent, args.context, args.target) = NoError

RemoteFailure == outcome.kind = "rejected" /\ outcome.error \in RemoteErrors

InvokeCalls == SelectSeq(calls, LAMBDA c : c.call = "invoke")

\* C1: raiseIntent(intent, ctx) on a platform list whose first platform has
\* exactly one method declaring the intent issues remote calls to the first
\* platform only; once discovery has resolved it invokes that method with
\* ctx, and it resolves with that invocation's result payload.  It settles
\* otherwise only when one of the two remote calls itself rejected, never
\* with an ambiguity error, whatever the later platforms expose.
C1_FirstPlatformUniqueMatchWins ==
  (/\ RaiseValid
   /\ ~Truthy(args.target)
   /\ Len(platforms) >= 1
   /\ Cardinality(DeclaringAt(1, args.intent.v)) = 1)
  => LET m == platforms[1].methods[TheOnly(DeclaringAt(1, args.intent.v))]
         inv == InvokeCall(1, m, args.context)
     IN /\ \A c \in 1..Len(calls) : calls[c].platform = 1
        /\ pc = "raiseIntent_invoke" => calls = <<DiscoverCall(1), inv>>
        /\ pc = "done" =>
             \/ outcome = Resolved(ResultOf(inv)) /\ calls = <<DiscoverCall(1), inv>>
             \/ RemoteFailure /\ calls \in {<<DiscoverCall(1)>>, <<DiscoverCall(1), inv>>}

C1_Witness ==
  /\ RaiseValid
  /\ pc = "done"
  /\ ~Truthy(args.target)
  /\ Len(platforms) >= 2
  /\ Cardinality(DeclaringAt(1, args.intent.v)) = 1
  /\ DeclaringAt(2, args.intent.v) # {}
  /\ outcome.kind = "resolved"

\* C2: when the platforms before index k have no method declaring the
\* intent and platform k has exactly one, raiseIntent (no remote call
\* rejecting) resolves with the result of invoking platform k's method.
C2_CommitsToFirstMatchingPlatform ==
  (RaiseValid /\ pc = "done" /\ ~Truthy(args.target) /\ ~RemoteFailure)
  => \A k \in 1..Len(platforms) :
       (/\ \A j \in 1..(k - 1) : DeclaringAt(j, args.intent.v) = {}
        /\ Cardinality(DeclaringAt(k, args.intent.v)) = 1)
       => outcome = Resolved(ResultOf(InvokeCall(k,
            platforms[k].methods[TheOnly(DeclaringAt(k, args.intent.v))], args.context)))

\* The candidates of platform j for the call in progress.
CandidatesAt(j) ==
  IF Truthy(args.target) THEN TargetedAt(j, args.intent.v, args.target.v)
  ELSE DeclaringAt(j, args.intent.v)

\* C3: a validated raiseIntent call (no remote call rejecting) either
\* invokes exactly one method, the unique matching method of the platform
\* it commits to, and resolves with that invocation's result, or rejects
\* with the 'no method' / 'multiple applications' error without invoking
\* anything; it never resolves without having invoked a method.
C3_RaiseIntentOutcomes ==
  (RaiseValid /\ pc = "done" /\ ~RemoteFailure)
  => \/ \E j \in 1..Len(platforms) :
          /\ Cardinality(CandidatesAt(j)) = 1
          /\ InvokeCalls = <<InvokeCall(j, platforms[j].methods[TheOnly(CandidatesAt(j))], args.context)>>
          /\ outcome = Resolved(ResultOf(InvokeCalls[1]))
     \/ /\ outcome \in {Rejected(NoMethodMessage(args.intent)), Rejected(MultipleMethodsMessage(args.intent))}
        /\ InvokeCalls = <<>>

\* C4: raiseIntent(intent, ctx, target) counts, on the platform visited, only
\* the methods declaring the intent whose peer application is target: with
\* exactly one such method it invokes that method (and resolves with its
\* result) however many other applications declare the intent, with none
\* it rejects with the 'no method' error, without invoking anything.
C4_TargetFilterBeforeCardinality ==
  (RaiseValid /\ Truthy(args.target) /\ Len(platforms) >= 1)
  => LET T == TargetedAt(1, args.intent.v, args.target.v)
         inv == InvokeCall(1, platforms[1].methods[TheOnly(T)], args.context)
     IN /\ (Cardinality(T) = 1 /\ pc = "raiseIntent_invoke") => InvokeCalls = <<inv>>
        /\ (Cardinality(T) = 1 /\ pc = "done") =>
             \/ outcome = Resolved(ResultOf(inv)) /\ InvokeCalls = <<inv>>
             \/ RemoteFailure
        /\ (T = {} /\ pc = "done" /\ ~RemoteFailure) =>
             outcome = Rejected(NoMethodMessage(args.intent)) /\ InvokeCalls = <<>>

C4_Witness ==
  /\ RaiseValid
  /\ pc = "done"
  /\ Truthy(args.target)
  /\ Len(platforms) >= 1
  /\ Cardinality(DeclaringAt(1, args.intent.v)) >= 2
  /\ Cardinality(TargetedAt(1, args.intent.v, args.target.v)) = 1
  /\ outcome.kind = "resolved"

\* -------------------------------------------------------- properties: open
OpenValid ==
  /\ pc # "idle"
  /\ args.op = "open"
  /\ validateOpenParams(args.app, args.context) = NoError

\* The position of the last ":" of a string (0 if it has none).
LastColon(str) ==
  IF \E j \in 1..Len(str) : str[j] = ":"
    THEN CHOOSE j \in 1..Len(str) : str[j] = ":" /\ \A h \in (j + 1)..Len(str) : str[h] # ":"
    ELSE 0

\* A name is qualified when something follows its last ":".
Qualified(str) == LastColon(str) > 0 /\ LastColon(str) < Len(str)
PlatformPart(str) == SubSeq(str, LastColon(str) + 1, Len(str))
AppPart(str) == SubSeq(str, 1, LastColon(str) - 1)

\* The application name the open call in progress asks for.
RequestedApp == IF Qualified(args.app.v) THEN AppPart(args.app.v) ELSE args.app.v

Exposes(j, capability) ==
  \E k \in 1..Len(platforms[j].methods) :
    platforms[j].methods[k].name = MethodFullName(platforms[j].name, capability)

\* How many applications named app platform j's list holds.
ListedCount(j, app) ==
  Cardinality({k \in 1..Len(platforms[j].apps) : platforms[j].apps[k].name = app})

ListApplicationsFailed(j) ==
  \E c \in 1..Len(replies) : calls[c] = ListApplicationsCall(j) /\ replies[c] = "rejected"

\* Platform j lists an application named app: it exposes ListApplications,
\* the invocation has not failed, and the list holds the name.
Lists(j, app) ==
  /\ Exposes(j, "ListApplications")
  /\ ~ListApplicationsFailed(j)
  /\ ListedCount(j, app) >= 1

ListingPlatforms(app) == {j \in 1..Len(platforms) : Lists(j, app)}

DiscoveryRejected ==
  \E c \in 1..Len(replies) : calls[c].call = "discoverMethods" /\ replies[c] = "rejected"

StartCalls ==
  SelectSeq(calls, LAMBDA c : c.call = "invoke" /\ c.method.name[3] = "StartApplication")

\* open settled as the claim says it does when platform j is the one
\* platform with the application and exposes the start capability.
StartedOn(j) ==
  LET start == StartApplicationCall(j, args.app.v, args.context) IN
  /\ StartCalls = <<start>>
  /\ \/ outcome = Resolved(ResultOf(start))
     \/ replies[Len(replies)] = "rejected" /\ outcome = Rejected(UnableToStartMessage(args.app.v))

C6_QualifiedOpen ==
  (OpenValid /\ Qualified(args.app.v))
  => LET X == {j \in 1..Len(platforms) : platforms[j].name = PlatformPart(args.app.v)}
         start == StartApplicationCall(TheOnly(X), AppPart(args.app.v), args.context)
     IN /\ \A c \in 1..Len(calls) : X # {} /\ calls[c] = start
        /\ Len(calls) <= 1
        /\ (pc = "done" /\ X = {}) =>
             outcome = Rejected(NoPlatformNamedMessage(PlatformPart(args.app.v))) /\ calls = <<>>
        /\ (pc = "done" /\ X # {}) =>
             /\ calls = <<start>>
             /\ \/ replies = <<"resolved">> /\ outcome = Resolved(ResultOf(start))
                \/ replies = <<"rejected">> /\ outcome = Rejected(UnableToStartMessage(AppPart(args.app.v)))

\* A qualified open resolved although another platform lists the application
\* and the application part itself contains a ":".
C6_Witness ==
  /\ OpenValid
  /\ pc = "done"
  /\ Qualified(args.app.v)
  /\ LastColon(AppPart(args.app.v)) > 0
  /\ outcome.kind = "resolved"
  /\ \E j \in 1..Len(platforms) :
       platforms[j].name # PlatformPart(args.app.v) /\ ListedCount(j, AppA) >= 1

\* Messages produced during platform resolution.
ResolutionMessages ==
  { NoPlatformNamedMessage(PlatformPart(args.app.v)),
    MultiplePlatformsNamedMessage(PlatformPart(args.app.v)),
    NoPlatformsWithAppMessage(RequestedApp),
    MultiplePlatformsWithAppMessage(RequestedApp),
    MultipleApplicationsMessage(RequestedApp) }
  \cup {e.message : e \in {r \in RemoteErrors : r.message # <<>>}}

\* C7: every open call that passes validation and then fails rejects with
\* `Unable to start application named "<app>"` or with a more specific
\* message produced during platform resolution.
C7_OpenFailsWithOneApplicationError ==
  (OpenValid /\ pc = "done" /\ outcome.kind = "rejected")
  => \/ outcome.error.message = UnableToStartMessage(RequestedApp)
     \/ outcome.error.message \in ResolutionMessages

\* C21: a call of open that fails with the default message names the
\* application that call asked for, also when another call of open ran in
\* between.
C21_DefaultMessageNamesOwnApplication ==
  (/\ pc = "done"
   /\ args.op = "open"
   /\ outcome.kind = "rejected"
   /\ Len(outcome.error.message) = 2
   /\ outcome.error.message[1] = "Unable to start application named") =>
    outcome.error.message[2] = RequestedApp

\* -------------------------------------------- properties: find operations
\* Every declared intent of every method of every platform, as
\* <<platform, method, intent>> positions.
AllDeclared ==
  UNION { UNION { { <<j, m, k>> : k \in 1..Len(platforms[j].methods[m].intent) }
                  : m \in 1..Len(platforms[j].methods) }
          : j \in 1..Len(platforms) }

DeclaredAt(p) == platforms[p[1]].methods[p[2]].intent[p[3]]
PeerAt(p) == platforms[p[1]].methods[p[2]].peer.applicationName

\* Platform-then-method-then-intent iteration order.
Before(p, q) ==
  \/ p[1] < q[1]
  \/ p[1] = q[1] /\ p[2] < q[2]
  \/ p[1] = q[1] /\ p[2] = q[2] /\ p[3] < q[3]

Rank(P, p) == Cardinality({q \in P : Before(q, p)}) + 1

\* apps holds exactly one entry per position of P, in iteration order.
ListsInOrder(apps, P) ==
  /\ Len(apps) = Cardinality(P)
  /\ \A p \in P : apps[Rank(P, p)] = [name |-> PeerAt(p)]

\* Two contexts have the same keys with the same values.
StructurallyEqual(a, b) ==
  /\ a.t = "object"
  /\ b.t = "object"
  /\ {a.v[h][1] : h \in 1..Len(a.v)} = {b.v[h][1] : h \in 1..Len(b.v)}
  /\ \A h \in 1..Len(a.v) : Get(b, a.v[h][1]) = a.v[h][2]

FindIntentReturned ==
  /\ pc = "done"
  /\ args.op = "findIntent"
  /\ validateIntentAndContextParams(args.intent, args.context) = NoError
  /\ ~DiscoveryRejected

\* C8: findIntent(X) without context resolves with one AppIntent named X
\* whose apps list holds, in platform-then-method order, one entry (the
\* method's peer application) per declared intent named X, and nothing
\* else; duplicates are kept.
C8_FindIntentListsEveryDeclaration ==
  (FindIntentReturned /\ ~Truthy(args.context))
  => /\ outcome.kind = "resolved"
     /\ outcome.value.intent = [name |-> args.intent.v, displayName |-> args.intent.v]
     /\ ListsInOrder(outcome.value.apps, {p \in AllDeclared : DeclaredAt(p).name = args.intent.v})

\* Both platforms contribute, and one platform has two methods of the same
\* application declaring the intent, which is listed twice.
C8_Witness ==
  /\ FindIntentReturned
  /\ ~Truthy(args.context)
  /\ Len(platforms) = 2
  /\ Len(platforms[2].methods) = 2
  /\ platforms[2].methods[1] = platforms[2].methods[2]
  /\ platforms[1].methods # <<>>
  /\ Len(outcome.value.apps) = 3
  /\ outcome.value.apps[2] = outcome.value.apps[3]

\* C9: findIntent(X, ctx) lists a method's application exactly for the
\* declared intents named X whose context is structurally equal to ctx
\* (same keys and values, in any key order).
C9_FindIntentStructuralEquality ==
  (FindIntentReturned /\ Truthy(args.context))
  => /\ outcome.kind = "resolved"
     /\ ListsInOrder(outcome.value.apps,
          {p \in AllDeclared : /\ DeclaredAt(p).name = args.intent.v
                               /\ StructurallyEqual(args.context, DeclaredAt(p).context)})

FindIntentsByContextReturned ==
  /\ pc = "done"
  /\ args.op = "findIntentsByContext"
  /\ validateContext(args.context) = NoError
  /\ ~DiscoveryRejected

\* The declared intents the call in progress matches: those whose context
\* compares equal to ctx in the engine's comparison.
MatchedForContext == {p \in AllDeclared : SameContext(DeclaredAt(p).context, args.context)}
MatchedNamed(name) == {p \in MatchedForContext : DeclaredAt(p).name = name}
FirstMatched(name) == CHOOSE p \in MatchedNamed(name) : Rank(MatchedNamed(name), p) = 1

\* C10: findIntentsByContext(ctx) resolves with one AppIntent per intent
\* name that has a matching declared intent: no two entries share a name,
\* the entries are in first-seen order over the platform-then-method-then-
\* intent iteration, and each entry's apps list holds one application per
\* matching declared intent of that name.
C10_FindIntentsByContextGroups ==
  FindIntentsByContextReturned
  => /\ outcome.kind = "resolved"
     /\ LET R == outcome.value IN
        /\ \A e, f \in 1..Len(R) : e # f => R[e].intent.name # R[f].intent.name
        /\ {R[e].intent.name : e \in 1..Len(R)} = {DeclaredAt(p).name : p \in MatchedForContext}
        /\ \A e, f \in 1..Len(R) :
             e < f => Before(FirstMatched(R[e].intent.name), FirstMatched(R[f].intent.name))
        /\ \A e \in 1..Len(R) :
             /\ R[e].intent.displayName = R[e].intent.name
             /\ ListsInOrder(R[e].apps, MatchedNamed(R[e].intent.name))

\* Platform A offers X, platform B offers Y and X, all for ctx: the result
\* is [X: A's app, B's app; Y: B's app].
C10_Witness ==
  /\ FindIntentsByContextReturned
  /\ Len(platforms) = 2
  /\ Cardinality(MatchedForContext) = 3
  /\ outcome.value = << AppIntent(IntentX, <<[name |-> AppZ], [name |-> AppA]>>),
                        AppIntent(IntentY, <<[name |-> AppA]>>) >>

\* --------------------------------------------------- properties: broadcast
\* A context as the interface declares it: an object whose `type` is a
\* non-empty string and whose `name`, if present, is a string.
WellFormedContext(context) ==
  /\ context.t = "object"
  /\ \E j \in 1..Len(context.v) :
       context.v[j][1] = Key_type /\ context.v[j][2].t = "string" /\ context.v[j][2].v # <<>>
  /\ \A j \in 1..Len(context.v) :
       context.v[j][1] = Key_name => context.v[j][2].t \in {"string", "undefined"}

BroadcastValid ==
  args # <<>> /\ args.op = "broadcast" /\ WellFormedContext(args.context)

\* Positions of the context-listener methods among platform j's methods.
ListenersAt(j) ==
  {m \in 1..Len(platforms[j].methods) :
     platforms[j].methods[m].name = <<"Fdc3", platforms[j].name, "ContextListener">>}

\* How often the task of platform j invoked the method at position m.
InvocationsOf(j, m) ==
  Cardinality({i \in 1..Len(tasks[j].calls) :
     /\ tasks[j].calls[i].call = "invoke"
     /\ tasks[j].calls[i].method = platforms[j].methods[m]
     /\ tasks[j].calls[i].args = args.context})

\* A call of platform j's task was rejected.
TaskFailed(j) == \E i \in 1..Len(tasks[j].replies) : tasks[j].replies[i] = "rejected"

Delivered(j) ==
  /\ j \in DOMAIN tasks
  /\ TaskFailed(j) \/ \A m \in ListenersAt(j) : InvocationsOf(j, m) >= 1

\* C11: broadcast with a valid context returns without throwing, and
\* whichever platforms have a discoverMethods or invoke call rejected, every
\* context-listener method of every platform none of whose calls is rejected
\* is eventually invoked with the context, however the tasks interleave.
C11_BroadcastIsolatesFailures ==
  /\ [](BroadcastValid => outcome = Returned)
  /\ \A j \in 1..MaxPlatforms :
       (BroadcastValid /\ j \in DOMAIN tasks) ~> Delivered(j)

\* One platform's task failed and another's delivered to its two listeners.
C11_Witness ==
  /\ BroadcastValid
  /\ \E i, j \in DOMAIN tasks :
       /\ TaskFailed(i)
       /\ ~TaskFailed(j)
       /\ Cardinality(ListenersAt(j)) = 2
       /\ \A m \in ListenersAt(j) : InvocationsOf(j, m) = 1

\* The invocations the task of platform j has issued.
TaskInvocations(j) ==
  {i \in 1..Len(tasks[j].calls) : tasks[j].calls[i].call = "invoke"}

\* C15: broadcast has returned to its caller before any invocation is even
\* issued; in one broadcast a task invokes only context-listener methods
\* its platform's discovery listed, each at most once, and a rejected
\* invocation is not repeated.
C15_BroadcastFireAndForget ==
  \A j \in DOMAIN tasks :
    /\ TaskInvocations(j) # {} => outcome = Returned
    /\ \A m \in ListenersAt(j) : InvocationsOf(j, m) <= 1
    /\ \A i \in TaskInvocations(j) :
         \E m \in ListenersAt(j) :
           /\ tasks[j].calls[i].method = platforms[j].methods[m]
           /\ tasks[j].calls[i].args = args.context
    /\ TaskFailed(j) =>
         /\ tasks[j].pc = "done"
         /\ tasks[j].replies[Len(tasks[j].replies)] = "rejected"

\* broadcast has returned; the second platform's only invocation was
\* rejected and its task has ended while the first platform's discovery is
\* still outstanding.
C15_Witness ==
  /\ outcome = Returned
  /\ Len(tasks) >= 2
  /\ tasks[1].pc = "discover"
  /\ tasks[2].pc = "done"
  /\ TaskFailed(2)
  /\ Cardinality(ListenersAt(2)) = 2
  /\ Cardinality(TaskInvocations(2)) = 1

\* --------------------------------------------------- properties: listeners
\* Listeners on a channel whose unsubscribe was never called.
Subscribed(key) ==
  {l \in DOMAIN listeners : listeners[l].key = key /\ listeners[l].unsubscribed = 0}

SubscribedWith(key, handler) ==
  {l \in Subscribed(key) : listeners[l].callback = handler}

\* How often the last event called a handler with an argument.
CalledWith(handler, argument) ==
  Cardinality({i \in 1..Len(event.called) :
     event.called[i].callback = handler /\ event.called[i].argument = argument})

Called(handler) ==
  Cardinality({i \in 1..Len(event.called) : event.called[i].callback = handler})

\* Every Listener so far was returned by instance e.
OnlyEngine(e) == \A l \in DOMAIN listeners : listeners[l].engine = e

\* C12: with listeners added and unsubscribed on one engine only, a remote
\* invocation of a context-listener method calls a handler once per Listener
\* of it that is still subscribed, with the received context and not
\* otherwise: a handler none of whose Listeners is subscribed is not called,
\* and the other handlers still are.
C12_ContextHandlersCalledPerSubscription ==
  (event.kind = "invoked" /\ OnlyEngine(event.engine)) =>
    \A handler \in Handlers :
      /\ CalledWith(handler, event.context) = Cardinality(SubscribedWith("add-context", handler))
      /\ Called(handler) = CalledWith(handler, event.context)

\* How often a callback is on a channel.
OnChannel(key, handler) ==
  Cardinality({i \in 1..Len(registry[key]) : registry[key][i] = handler})

\* Listeners instance e returned for a channel, unsubscribed or not.
ReturnedBy(e, key) ==
  {l \in DOMAIN listeners : listeners[l].engine = e /\ listeners[l].key = key}

\* C16: once addIntentListener(intent, handler) was called on an engine,
\* whether or not that Listener is still subscribed, a platform of the engine
\* reporting a new method that declares the intent has every callback then on
\* the "add-intent" channel called with the declared intent's context.
C16_IntentForwardingStaysInstalled ==
  event.kind = "registered" =>
    \A l \in ReturnedBy(event.engine, "add-intent") :
      \A k \in 1..Len(event.method.intent) :
        event.method.intent[k].name = listeners[l].intent =>
          \A handler \in Handlers :
            CalledWith(handler, event.method.intent[k].context) >= OnChannel("add-intent", handler)

\* The Listener for X was unsubscribed, another callback is still on the
\* channel, and a method declaring X is reported: the other callback is
\* called with X's context, the unsubscribed one is not called.
C16_Witness ==
  /\ event.kind = "registered"
  /\ Len(listeners) = 2
  /\ listeners[1].key = "add-intent" /\ listeners[2].key = "add-intent"
  /\ listeners[1].engine = event.engine /\ listeners[2].engine = event.engine
  /\ listeners[1].intent = IntentX /\ listeners[1].unsubscribed = 1
  /\ listeners[2].intent = IntentY /\ listeners[2].unsubscribed = 0
  /\ listeners[1].callback # listeners[2].callback
  /\ event.method.intent = <<[name |-> IntentX, context |-> Ctx1]>>
  /\ CalledWith(listeners[2].callback, Ctx1) >= 1
  /\ Called(listeners[1].callback) = 0

\* C17: unsubscribe takes exactly its own registration off its channel and a
\* repeated unsubscribe takes nothing more: each channel holds a callback
\* once per Listener of it that was never unsubscribed, and every platform
\* keeps one registered method per context Listener and one hook per intent
\* Listener its engine returned, unsubscribed or not.
C17_UnsubscribeRemovesOneRegistration ==
  /\ \A key \in DOMAIN registry : \A handler \in Handlers :
       OnChannel(key, handler) = Cardinality(SubscribedWith(key, handler))
  /\ \A e \in DOMAIN engines : \A j \in DOMAIN engines[e] :
       /\ Len(engines[e][j].registered) = Cardinality(ReturnedBy(e, "add-context"))
       /\ Len(engines[e][j].hooks) = Cardinality(ReturnedBy(e, "add-intent"))

\* C20: a platform event reaching one engine calls only handlers that were
\* registered on that engine, on the channel the event belongs to.
C20_RegistryScopedToEngine ==
  event.kind \in {"invoked", "registered"} =>
    \A i \in 1..Len(event.called) :
      \E l \in ReturnedBy(event.engine,
                          IF event.kind = "invoked" THEN "add-context" ELSE "add-intent") :
        listeners[l].callback = event.called[i].callback

\* How often a handler's subscribed intent Listeners ask for the last
\* reported method to be forwarded with a context: once per Listener and
\* declared intent of the Listener's name.
DueWith(handler, context) ==
  Cardinality({p \in SubscribedWith("add-intent", handler) \X (1..Len(event.method.intent)) :
     /\ event.method.intent[p[2]].name = listeners[p[1]].intent
     /\ event.method.intent[p[2]].context = context})

\* C22: with listeners added on one engine and none unsubscribed twice, a
\* handler added for an intent is called, when a platform reports a new
\* method, once for every declared intent of that name with that intent's
\* context, and not otherwise: not for a method declaring other intents
\* only, and not once more per further listener.
C22_IntentHandlerCalledForOwnIntentOnly ==
  (/\ event.kind = "registered"
   /\ OnlyEngine(event.engine)
   /\ \A l \in DOMAIN listeners : listeners[l].unsubscribed < 2) =>
    \A handler \in Handlers :
      /\ \A context \in {Ctx1, Ctx2} : CalledWith(handler, context) = DueWith(handler, context)
      /\ Called(handler) = CalledWith(handler, Ctx1) + CalledWith(handler, Ctx2)

\* ----------------------------------------------------- properties: Fdc3Bus
HasDuplicate(names) ==
  \E i, j \in 1..Len(names) : i # j /\ names[i] = names[j]

\* C13: called with two descriptors of one type, Fdc3Bus rejects with the
\* configuration error without having started an interval or a connect; an
\* engine it resolves with has pairwise distinct platform names.
C13_DuplicateTypesRejectedFirst ==
  /\ (bus.pc # "idle" /\ HasDuplicate(bus.descriptors)) =>
       /\ bus.pc = "rejected"
       /\ bus.error = <<"Multiple platforms have the same type.">>
       /\ bus.timers = <<>>
       /\ bus.started = <<>>
  /\ bus.pc = "resolved" => ~HasDuplicate([j \in DOMAIN platforms |-> platforms[j].name])

C13_Witness ==
  /\ bus.pc = "rejected"
  /\ Len(bus.descriptors) = 2
  /\ bus.descriptors[1] = bus.descriptors[2]

\* C18: Fdc3Bus resolves only when every descriptor has a connection, with
\* one handle per descriptor in the descriptors' order; it rejects for
\* repeated types only, never for a rejected connect; and, every connect
\* succeeding after finitely many rejections, it does resolve.
C18_BusResolvesOnceAllConnected ==
  /\ [](bus.pc = "resolved" =>
          /\ \A j \in DOMAIN bus.descriptors : bus.connected[j] > 0
          /\ [j \in DOMAIN platforms |-> platforms[j].name] = bus.descriptors)
  /\ [](bus.pc = "rejected" => HasDuplicate(bus.descriptors))
  /\ (bus.pc = "connecting") ~> (bus.pc = "resolved")

\* Resolved over two platforms after a connect of each was rejected.
C18_Witness ==
  /\ bus.pc = "resolved"
  /\ Len(platforms) = 2
  /\ bus.rejected[1] > 0
  /\ bus.rejected[2] > 0

\* C19: every descriptor has one interval; it runs as long as none of the
\* descriptor's connects has resolved and is cleared from then on, and no
\* connect is started for a descriptor one of whose connects has resolved.
C19_TimerCancelledOnSuccess ==
  /\ [](bus.pc \in {"connecting", "resolved"} =>
          /\ Len(bus.timers) = Len(bus.descriptors)
          /\ \A j \in DOMAIN bus.timers :
               bus.timers[j] = IF bus.connected[j] > 0 THEN "cleared" ELSE "running")
  /\ [][\A j \in DOMAIN bus.connected :
          bus.connected[j] > 0 => bus'.started[j] = bus.started[j]]_vars

\* The first platform is connected and its interval cleared; the second has
\* had a connect rejected and its interval has fired again.
C19_Witness ==
  /\ Len(bus.timers) = 2
  /\ bus.connected[1] > 0 /\ bus.timers[1] = "cleared"
  /\ bus.rejected[2] > 0 /\ bus.connected[2] = 0
  /\ bus.timers[2] = "running" /\ bus.started[2] >= 2

\* C23: while Fdc3Bus is being constructed a descriptor never has two
\* connect calls outstanding together, and never more than one connection.
C23_OneConnectAtATime ==
  \A j \in DOMAIN bus.pending :
    /\ bus.pending[j] <= 1
    /\ bus.connected[j] <= 1

\* --------------------------------------------------- properties: validation
\* A mandatory string argument as the interface declares it.
WellFormedString(x) == x.t = "string" /\ x.v # <<>>

\* Some argument of the call in progress is missing though the interface
\* requires it, or is not of the declared form.  app and intent are
\* mandatory everywhere; the context is mandatory for findIntentsByContext,
\* raiseIntent and broadcast, optional for open and findIntent; the target
\* is optional.
MalformedCall ==
  CASE args.op = "open" ->
         \/ ~WellFormedString(args.app)
         \/ args.context # Undefined /\ ~WellFormedContext(args.context)
    [] args.op = "findIntent" ->
         \/ ~WellFormedString(args.intent)
         \/ args.context # Undefined /\ ~WellFormedContext(args.context)
    [] args.op = "findIntentsByContext" -> ~WellFormedContext(args.context)
    [] args.op = "raiseIntent" ->
         \/ ~WellFormedString(args.intent)
         \/ ~WellFormedContext(args.context)
         \/ args.target # Undefined /\ args.target.t # "string"
    [] args.op = "broadcast" -> ~WellFormedContext(args.context)
    [] OTHER -> FALSE

ValidationMessages ==
  { <<"App is mandatory parameter">>, <<"App must be of type string">>,
    <<"Intent is mandatory parameter">>, <<"Intent must be of type string">>,
    <<"Context is mandatory parameter">>, <<"Context must be of type object">>,
    <<"Context type is mandatory parameter">>, <<"Context type must be of type string">>,
    <<"Context name must be of type string">>, <<"Target must be of type string">> }

\* C14: a call of open, findIntent, findIntentsByContext, raiseIntent or
\* broadcast with a malformed or missing argument fails with a validation
\* error, without any remote call having been made and with the callback
\* registry as it was.
C14_ValidationFailsFast ==
  (args # <<>> /\ MalformedCall) =>
    /\ outcome.kind \in {"rejected", "threw"}
    /\ outcome.error.message \in ValidationMessages
    /\ calls = <<>>
    /\ tasks = <<>>
    /\ registry = EmptyRegistry

====
